---------------------------- MODULE Spec2Model ----------------------------
(***************************************************************************)
(* Version parsing, version comparison and range normalisation of rvm:     *)
(*   src/src/parsing/version_parser.rs  (Version, Range, Op)               *)
(*   src/src/parsing/grammer.rs         (the peg grammar the_parser)       *)
(*                                                                         *)
(* Every function of the library is pure, so the state machine is a call   *)
(* harness: Init draws the inputs, each action applies one function to     *)
(* them and records what it returned.  Strings are sequences of            *)
(* one-character strings, Option<T> is <<>> (None) or <<t>> (Some(t)).     *)
(***************************************************************************)
EXTENDS Integers, Sequences, FiniteSets, Bags, TLC

VARIABLES
  overflow_checks, \* build profile: TRUE panics on u32 overflow, FALSE wraps
  a,               \* a Version (self)
  b,               \* a Version (other)
  ranges,          \* a Vec<(Op, Version)>
  text,            \* a &str
  pc,              \* the call that was made last
  ret              \* what it returned

vars == <<overflow_checks, a, b, ranges, text, pc, ret>>

---------------------------------------------------------------------------
(* Bounds *)

\* the largest u32, with the width scaled down to 4 bits
U32_MAX == 15
\* the longest Vec<(Op, Version)> handed to the range algebra
MaxLen == 2
\* the longest raw text handed to the parsers
MaxText == 4
\* the longest extra_version, pre_release or build token of a printed Version
MaxToken == 2

---------------------------------------------------------------------------
(* Characters and strings *)

\* the characters the model uses, in ascending byte order
Ascii ==
  << " ", "!", "+", ",", "-", ".",
     "0", "1", "2", "3", "4", "5", "6", "7", "8", "9",
     ";", "<", "=", ">", "V", "^", "_", "a", "b", "c", "v", "x", "~" >>

Ord(c) == CHOOSE i \in 1..Len(Ascii) : Ascii[i] = c

Digits == <<"0", "1", "2", "3", "4", "5", "6", "7", "8", "9">>

IsDigit(c) == \E i \in 1..10 : Digits[i] = c

DigitVal(c) == (CHOOSE i \in 1..10 : Digits[i] = c) - 1

\* str < str: lexicographic on bytes, a proper prefix is smaller
RECURSIVE StrLt(_, _)
StrLt(s, t) ==
  IF t = <<>> THEN FALSE
  ELSE IF s = <<>> THEN TRUE
  ELSE IF Ord(Head(s)) < Ord(Head(t)) THEN TRUE
  ELSE IF Ord(Head(s)) > Ord(Head(t)) THEN FALSE
  ELSE StrLt(Tail(s), Tail(t))

None == <<>>
Some(x) == <<x>>

\* Option<String> < Option<String>: None is below every Some
OptLt(x, y) ==
  IF y = None THEN FALSE
  ELSE IF x = None THEN TRUE
  ELSE StrLt(x[1], y[1])

---------------------------------------------------------------------------
(* Version *)

New(major, minor, patch, extra_version, pre_release, build) ==
  [major |-> major, minor |-> minor, patch |-> patch,
   extra_version |-> extra_version, pre_release |-> pre_release,
   build |-> build]

\* #[derive(PartialEq, Eq)]: every field, build included
DerivedEq(x, y) ==
  /\ x.major = y.major
  /\ x.minor = y.minor
  /\ x.patch = y.patch
  /\ x.extra_version = y.extra_version
  /\ x.pre_release = y.pre_release
  /\ x.build = y.build

is_older_than(self, other) ==
  \/ self.major < other.major
  \/ self.minor < other.minor
  \/ self.patch < other.patch
  \/ OptLt(self.extra_version, other.extra_version)
  \/ OptLt(self.pre_release, other.pre_release)

partial_cmp(self, other) ==
  IF self.major < other.major THEN "Less"
  ELSE IF self.major > other.major THEN "Greater"
  ELSE IF self.minor < other.minor THEN "Less"
  ELSE IF self.minor > other.minor THEN "Greater"
  ELSE IF self.patch < other.patch THEN "Less"
  ELSE IF self.patch > other.patch THEN "Greater"
  ELSE IF OptLt(self.extra_version, other.extra_version) THEN "Less"
  ELSE IF OptLt(other.extra_version, self.extra_version) THEN "Greater"
  ELSE "Equal"

cmp(self, other) == partial_cmp(self, other)

\* the comparison operators PartialOrd provides
Lt(x, y) == partial_cmp(x, y) = "Less"
Gt(x, y) == partial_cmp(x, y) = "Greater"
Le(x, y) == partial_cmp(x, y) \in {"Less", "Equal"}
Ge(x, y) == partial_cmp(x, y) \in {"Greater", "Equal"}

\* decimal digits of a u32 (format!("{}", n))
RECURSIVE U32ToString(_)
U32ToString(n) ==
  IF n < 10 THEN <<Digits[n + 1]>>
  ELSE U32ToString(n \div 10) \o <<Digits[(n % 10) + 1]>>

\* to_string with the '.' before extra_version left out
to_string_extra_undotted(self) ==
  LET s0 == U32ToString(self.major) \o <<".">> \o U32ToString(self.minor)
              \o <<".">> \o U32ToString(self.patch)
      s1 == IF self.extra_version # None
              THEN s0 \o self.extra_version[1] ELSE s0
      s2 == IF self.pre_release # None
              THEN s1 \o <<"-">> \o self.pre_release[1] ELSE s1
      s3 == IF self.build # None
              THEN s2 \o <<"+">> \o self.build[1] ELSE s2
  IN s3

to_string(self) ==
  LET s0 == U32ToString(self.major) \o <<".">> \o U32ToString(self.minor)
              \o <<".">> \o U32ToString(self.patch)
      s1 == IF self.extra_version # None
              THEN s0 \o <<".">> \o self.extra_version[1] ELSE s0
      s2 == IF self.pre_release # None
              THEN s1 \o <<"-">> \o self.pre_release[1] ELSE s1
      s3 == IF self.build # None
              THEN s2 \o <<"+">> \o self.build[1] ELSE s2
  IN s3

---------------------------------------------------------------------------
(* Range algebra *)

Ops == {"Eq", "Ne", "Gt", "Lt", "Ge", "Le", "Tilde", "Caret"}

\* a call either panics or returns val
Panic == [panicked |-> TRUE, val |-> <<>>]
Return(v) == [panicked |-> FALSE, val |-> v]

\* x + 1 on a u32: a panic with overflow checks, a wrap to 0 without
Add1(x) ==
  IF x < U32_MAX THEN Return(x + 1)
  ELSE IF overflow_checks THEN Panic
  ELSE Return(0)

Pair(op, version) == [op |-> op, version |-> version]

tilde_range_to_vec(version) ==
  LET m == Add1(version.minor) IN
  IF m.panicked THEN Panic
  ELSE Return(<< Pair("Ge", version),
                 Pair("Lt", New(version.major, m.val, 0, None, None, None)) >>)

caret_range_to_vec(version) ==
  LET m == Add1(version.major) IN
  IF m.panicked THEN Panic
  ELSE Return(<< Pair("Ge", version),
                 Pair("Lt", New(m.val, 0, 0, None, None, None)) >>)

le_range_to_lt(version) ==
  LET p == Add1(version.patch) IN
  IF p.panicked THEN Panic
  ELSE Return(<< Pair("Lt", New(version.major, version.minor, p.val,
                                None, None, None)) >>)

le_range_to_vec(version) == le_range_to_lt(version)

gt_range_to_ge(version) ==
  LET p == Add1(version.patch) IN
  IF p.panicked THEN Panic
  ELSE Return(<< Pair("Ge", New(version.major, version.minor, p.val,
                                None, None, None)) >>)

gt_range_to_vec(version) == gt_range_to_ge(version)

\* the closure of the flat_map
ExpandOne(p) ==
  CASE p.op = "Tilde" -> tilde_range_to_vec(p.version)
    [] p.op = "Caret" -> caret_range_to_vec(p.version)
    [] p.op = "Le" -> le_range_to_vec(p.version)
    [] p.op = "Gt" -> gt_range_to_vec(p.version)
    [] OTHER -> Return(<<p>>)

RECURSIVE mixed_vec_to_stand_vec(_)
mixed_vec_to_stand_vec(rs) ==
  IF rs = <<>> THEN Return(<<>>)
  ELSE LET h == ExpandOne(Head(rs)) IN
       IF h.panicked THEN Panic
       ELSE LET t == mixed_vec_to_stand_vec(Tail(rs)) IN
            IF t.panicked THEN Panic ELSE Return(h.val \o t.val)

\* one step of the stable sort: p goes after every element not above it
RECURSIVE InsertSorted(_, _)
InsertSorted(sorted, p) ==
  IF sorted = <<>> THEN <<p>>
  ELSE IF cmp(p.version, Head(sorted).version) = "Less" THEN <<p>> \o sorted
  ELSE <<Head(sorted)>> \o InsertSorted(Tail(sorted), p)

\* slice::sort_by(|(_, a), (_, b)| a.cmp(&b)), which is stable
RECURSIVE SortBy(_)
SortBy(rs) ==
  IF rs = <<>> THEN <<>>
  ELSE InsertSorted(SortBy(SubSeq(rs, 1, Len(rs) - 1)), rs[Len(rs)])

\* sort_vec with the sort_by left out
sort_vec_unsorted(rs) == mixed_vec_to_stand_vec(rs)

sort_vec(rs) ==
  LET e == mixed_vec_to_stand_vec(rs) IN
  IF e.panicked THEN Panic ELSE Return(SortBy(e.val))

\* the versions paired with op, in the order of rs
RECURSIVE VersionsOf(_, _)
VersionsOf(rs, op) ==
  IF rs = <<>> THEN <<>>
  ELSE IF Head(rs).op = op
    THEN <<Head(rs).version>> \o VersionsOf(Tail(rs), op)
    ELSE VersionsOf(Tail(rs), op)

\* HashMap<Op, Vec<Version>>: a key for every operator that occurs
separate_ops(rs) ==
  [op \in {rs[i].op : i \in 1..Len(rs)} |-> VersionsOf(rs, op)]

\* map.get(&op).unwrap_or(&vec![])
GetOrEmpty(map, op) == IF op \in DOMAIN map THEN map[op] ELSE <<>>

First(v) == IF v = <<>> THEN None ELSE Some(v[1])
Last(v) == IF v = <<>> THEN None ELSE Some(v[Len(v)])

from_ver_vec(rs) ==
  LET sorted == sort_vec(rs) IN
  IF sorted.panicked THEN Panic
  ELSE LET map == separate_ops(sorted.val) IN
       Return([min |-> First(GetOrEmpty(map, "Ge")),
               max |-> Last(GetOrEmpty(map, "Lt")),
               except |-> GetOrEmpty(map, "Ne"),
               include |-> GetOrEmpty(map, "Eq")])

---------------------------------------------------------------------------
(* The grammar the_parser.  A rule applied to input s at position i (the   *)
(* index of the next character, Len(s) + 1 at the end of input) fails or   *)
(* matches up to a position with a value; peg never re-enters a rule that  *)
(* matched to try a shorter match.                                         *)

Fail == [ok |-> FALSE, pos |-> 0, val |-> <<>>]
Match(pos, val) == [ok |-> TRUE, pos |-> pos, val |-> val]

AtEnd(s, i) == i > Len(s)

\* "x"? for a literal character: the position after it
OptLit(s, i, c) == IF ~AtEnd(s, i) /\ s[i] = c THEN i + 1 ELSE i

\* [set]*: the position after the longest run of characters of cs
RECURSIVE SkipAll(_, _, _)
SkipAll(s, i, cs) ==
  IF ~AtEnd(s, i) /\ s[i] \in cs THEN SkipAll(s, i + 1, cs) ELSE i

RECURSIVE DigitsEnd(_, _)
DigitsEnd(s, i) ==
  IF ~AtEnd(s, i) /\ IsDigit(s[i]) THEN DigitsEnd(s, i + 1) ELSE i

\* str::parse::<u32>() of digits; a value above the largest u32 is an Err,
\* reported here as U32_MAX + 1
RECURSIVE ParseU32(_, _)
ParseU32(ds, acc) ==
  IF ds = <<>> THEN acc
  ELSE IF acc * 10 + DigitVal(Head(ds)) > U32_MAX THEN U32_MAX + 1
  ELSE ParseU32(Tail(ds), acc * 10 + DigitVal(Head(ds)))

\* the value of rule num once its digits end at j
NumOf(j, n) == IF n > U32_MAX THEN Fail ELSE Match(j, n)

NumUpTo(s, i, j) ==
  IF j = i THEN Fail ELSE NumOf(j, ParseU32(SubSeq(s, i, j - 1), 0))

num(s, i) == NumUpTo(s, i, DigitsEnd(s, i))

IsTokenChar(c) ==
  IsDigit(c) \/ c \in {"a", "b", "c", "v", "x", "V", "_", "."}

RECURSIVE TokenEnd(_, _)
TokenEnd(s, i) ==
  IF ~AtEnd(s, i) /\ IsTokenChar(s[i]) THEN TokenEnd(s, i + 1) ELSE i

CharsUpTo(s, i, j) == IF j = i THEN Fail ELSE Match(j, SubSeq(s, i, j - 1))

chars(s, i) == CharsUpTo(s, i, TokenEnd(s, i))

separator(s, i) == Match(SkipAll(s, i, {" ", ",", ";"}), <<>>)

\* rule()? : the match r of rule at i, or a match of nothing with None
Opt(r, i) == IF r.ok THEN Match(r.pos, Some(r.val)) ELSE Match(i, None)

\* "."? n:num()? applied at i
DotOptNum(s, i) == Opt(num(s, OptLit(s, i, ".")), OptLit(s, i, "."))

\* rule main after M, m and p matched
MainPatch(M, m, p) == Match(p.pos, <<M, m, p.val>>)

MainMinor(s, M, m) == MainPatch(M, m.val, DotOptNum(s, m.pos))

MainMajor(s, M) ==
  IF ~M.ok THEN Fail ELSE MainMinor(s, M.val, DotOptNum(s, M.pos))

main(s, i) == MainMajor(s, num(s, i))

\* "c" chars() for the one-character prefix c
Prefixed(s, i, c) ==
  IF ~AtEnd(s, i) /\ s[i] = c THEN chars(s, i + 1) ELSE Fail

extra(s, i) == Prefixed(s, i, ".")
build(s, i) == Prefixed(s, i, "+")
pre(s, i) == Prefixed(s, i, "-")

\* the second alternative of afterV: b:build() p:pre() ![_]
AfterVSecondPre(s, b2, p2) ==
  IF p2.ok /\ AtEnd(s, p2.pos)
    THEN Match(p2.pos, <<Some(p2.val), Some(b2)>>)
    ELSE Fail

AfterVSecondBuild(s, b2) ==
  IF ~b2.ok THEN Fail ELSE AfterVSecondPre(s, b2.val, pre(s, b2.pos))

AfterVSecond(s, i) == AfterVSecondBuild(s, build(s, i))

\* the first alternative of afterV: p:pre()? b:build()? ![_], else the second
AfterVFirstBuild(s, i, p, bd) ==
  IF AtEnd(s, bd.pos) THEN Match(bd.pos, <<p, bd.val>>)
  ELSE AfterVSecond(s, i)

AfterVFirstPre(s, i, p) ==
  AfterVFirstBuild(s, i, p.val, Opt(build(s, p.pos), p.pos))

afterV(s, i) == AfterVFirstPre(s, i, Opt(pre(s, i), i))

UnwrapOr(o, d) == IF o = None THEN d ELSE o[1]

\* Version::new_w_extra, which the grammar calls: the constructor of a
\* Version from major, minor, patch, extra_version, pre_release and build
new_w_extra(major, minor, patch, extra_version, pre_release, bd) ==
  New(major, minor, patch, extra_version, pre_release, bd)

\* rule version after main, extra()? and afterV matched
VersionAfterV(m, e, av) ==
  IF ~av.ok THEN Fail
  ELSE Match(av.pos,
             new_w_extra(m[1], UnwrapOr(m[2], 0), UnwrapOr(m[3], 0), e,
                         av.val[1], av.val[2]))

VersionExtra(s, m, e) == VersionAfterV(m, e.val, afterV(s, e.pos))

VersionMain(s, m) ==
  IF ~m.ok THEN Fail
  ELSE VersionExtra(s, m.val, Opt(extra(s, m.pos), m.pos))

\* ['v' | 'V']? applied at i
OptV(s, i) == IF ~AtEnd(s, i) /\ s[i] \in {"v", "V"} THEN i + 1 ELSE i

version(s, i) == VersionMain(s, main(s, OptLit(s, OptV(s, i), " ")))

\* " "* ![_] after the version v
ParseVersionEnd(s, v) ==
  IF v.ok /\ AtEnd(s, SkipAll(s, v.pos, {" "}))
    THEN [ok |-> TRUE, val |-> v.val]
    ELSE [ok |-> FALSE, val |-> <<>>]

\* Result<Version, _>
parse_version(s) == ParseVersionEnd(s, version(s, SkipAll(s, 1, {" "})))

Version_parse(s) == parse_version(s)

\* Op::from_str: Ok(op) as Some(op), Err(ParseError::Range) as None
Op_from_str(o) ==
  CASE o \in {<<"=", "=">>, <<"=">>, <<>>} -> Some("Eq")
    [] o = <<"!", "=">> -> Some("Ne")
    [] o = <<">">> -> Some("Gt")
    [] o = <<"<">> -> Some("Lt")
    [] o = <<">", "=">> -> Some("Ge")
    [] o = <<"<", "=">> -> Some("Le")
    [] o = <<"~">> -> Some("Tilde")
    [] o = <<"^">> -> Some("Caret")
    [] OTHER -> None

\* the alternatives of rule op, in order
OpTokens ==
  << <<"=", "=">>, <<"!", "=">>, <<"<", "=">>, <<">", "=">>, <<"=">>,
     <<"<">>, <<">">>, <<"~">>, <<"^">>, <<" ">>, <<>> >>

StartsWith(s, i, t) ==
  /\ i + Len(t) - 1 <= Len(s)
  /\ SubSeq(s, i, i + Len(t) - 1) = t

\* the first alternative of rule op that matches at i
FirstToken(s, i) ==
  OpTokens[CHOOSE k \in 1..Len(OpTokens) :
             /\ StartsWith(s, i, OpTokens[k])
             /\ \A j \in 1..(k - 1) : ~StartsWith(s, i, OpTokens[j])]

\* a rule whose action can panic: the Op::from_str(o).unwrap() of rule op
PFail == [ok |-> FALSE, panicked |-> FALSE, pos |-> 0, val |-> <<>>]
PPanic == [ok |-> FALSE, panicked |-> TRUE, pos |-> 0, val |-> <<>>]
PMatch(pos, val) == [ok |-> TRUE, panicked |-> FALSE, pos |-> pos, val |-> val]

\* Op::from_str(o).unwrap()
OpUnwrap(pos, o) == IF o = None THEN PPanic ELSE PMatch(pos, o[1])

OpOf(i, token) == OpUnwrap(i + Len(token), Op_from_str(token))

op(s, i) == OpOf(i, FirstToken(s, i))

\* rule range after op and version matched
RangeVersion(s, o, v) ==
  IF ~v.ok THEN PFail
  ELSE PMatch(SkipAll(s, v.pos, {" "}), Pair(o, v.val))

RangeOp(s, o) ==
  IF o.panicked THEN PPanic
  ELSE RangeVersion(s, o.val, version(s, SkipAll(s, o.pos, {" "})))

range(s, i) == RangeOp(s, op(s, i))

\* range() ** separator(), continued at position i with acc matched so far:
\* a separator and an item, as long as both match
RECURSIVE RangeList(_, _, _)
RangeListItem(s, i, acc, r) ==
  IF r.panicked THEN PPanic
  ELSE IF ~r.ok THEN PMatch(i, acc)
  ELSE RangeList(s, r.pos, Append(acc, r.val))

RangeList(s, i, acc) ==
  RangeListItem(s, i, acc,
                range(s, IF acc = <<>> THEN i ELSE separator(s, i).pos))

\* { Range::from_ver_vec(r) }: handed is r, val the Range
RangeAction(handed, g) ==
  [ok |-> ~g.panicked, panicked |-> g.panicked,
   handed |-> handed, val |-> g.val]

\* " "* ![_] after the items r
ParseRangeEnd(s, r) ==
  IF r.panicked
    THEN [ok |-> FALSE, panicked |-> TRUE, handed |-> <<>>, val |-> <<>>]
  ELSE IF ~AtEnd(s, SkipAll(s, r.pos, {" "}))
    THEN [ok |-> FALSE, panicked |-> FALSE, handed |-> <<>>, val |-> <<>>]
  ELSE RangeAction(r.val, from_ver_vec(r.val))

\* Result<Range, _>, or a panic
parse_range(s) == ParseRangeEnd(s, RangeList(s, SkipAll(s, 1, {" "}), <<>>))

---------------------------------------------------------------------------
(* Inputs *)

\* impl Default for Version
DefaultVersion == New(1, 0, 0, None, None, None)

\* all strings over alphabet of length at most n
RECURSIVE StringsUpTo(_, _)
StringsUpTo(alphabet, n) ==
  IF n = 0 THEN {<<>>}
  ELSE LET shorter == StringsUpTo(alphabet, n - 1) IN
       shorter \cup {Append(t, c) : t \in shorter, c \in alphabet}

\* all sequences over S of length at most n
RECURSIVE SeqsUpTo(_, _)
SeqsUpTo(S, n) ==
  IF n = 0 THEN {<<>>}
  ELSE LET shorter == SeqsUpTo(S, n - 1) IN
       shorter \cup {Append(t, x) : t \in shorter, x \in S}

\* the versions the comparisons are applied to
CmpVersions ==
  { New(M, m, p, e, r, bd) :
      M \in {1, 2}, m \in {0, 1}, p \in {0, U32_MAX},
      e \in {None, Some(<<"1">>), Some(<<"5">>)},
      r \in {None, Some(<<"a">>)},
      bd \in {None, Some(<<"a">>), Some(<<"b">>)} }

\* the versions the range algebra is applied to
RangeVersions ==
  { New(1, 0, 0, None, None, None),
    New(1, 0, 0, None, None, Some(<<"a">>)),
    New(1, 0, 0, Some(<<"1">>), None, None),
    New(2, 0, 0, None, None, None),
    New(1, U32_MAX, 0, None, Some(<<"a">>), None),
    New(U32_MAX, 0, U32_MAX, None, None, None) }

RangePairs == {Pair(o, v) : o \in Ops, v \in RangeVersions}

RangeLists == SeqsUpTo(RangePairs, MaxLen)

\* the characters of the raw texts
RawAlphabet == {"1", "2", ".", "a", "=", ">"}

\* "abc", "1..2" and "=>1.0"
ExampleTexts ==
  { <<"a", "b", "c">>, <<"1", ".", ".", "2">>, <<"=", ">", "1", ".", "0">> }

RawTexts == StringsUpTo(RawAlphabet, MaxText) \cup ExampleTexts

\* the operator tokens of the range grammar that Op::from_str knows
ItemTokens ==
  { <<"=", "=">>, <<"!", "=">>, <<"<", "=">>, <<">", "=">>, <<"=">>,
    <<"<">>, <<">">>, <<"~">>, <<"^">>, <<>> }

ItemVersions ==
  { New(1, 0, 0, None, None, None),
    New(2, 0, 0, None, None, None),
    New(1, 5, 0, None, None, None) }

\* an item of a range text: an operator token and a version
Items == {[token |-> t, version |-> v] : t \in ItemTokens, v \in ItemVersions}

\* runs of spaces, commas and semicolons
Separators == { <<",">>, <<" ">>, <<",", " ">>, <<";">> }

\* the items as text, each version followed by after, joined by sep
RECURSIVE JoinItems(_, _, _)
JoinItems(items, after, sep) ==
  IF items = <<>> THEN <<>>
  ELSE Head(items).token \o to_string(Head(items).version) \o after
       \o (IF Len(items) > 1 THEN sep ELSE <<>>)
       \o JoinItems(Tail(items), after, sep)

\* the (Op, Version) pairs the items stand for
PairsOf(items) ==
  [i \in 1..Len(items) |->
     Pair(Op_from_str(items[i].token)[1], items[i].version)]

\* ">=1.0.0, <2.0.0, !=1.5.0"
ExampleItems ==
  << [token |-> <<">", "=">>, version |-> New(1, 0, 0, None, None, None)],
     [token |-> <<"<">>, version |-> New(2, 0, 0, None, None, None)],
     [token |-> <<"!", "=">>, version |-> New(1, 5, 0, None, None, None)] >>

\* the item lists the range texts are written from
ItemLists == (SeqsUpTo(Items, MaxLen) \ {<<>>}) \cup {ExampleItems}

\* the non-empty tokens over alphabet, None included
OptTokens(alphabet) ==
  {None} \cup {Some(t) : t \in StringsUpTo(alphabet, MaxToken) \ {<<>>}}

\* major, minor and patch of the versions that are printed and parsed back
RoundTripCores == {<<1, 0, 0>>, <<0, U32_MAX, 5>>, <<U32_MAX, 0, U32_MAX>>}

---------------------------------------------------------------------------
(* Version comparison: a and b are drawn, one call is made on them *)

InitVersion ==
  /\ overflow_checks \in BOOLEAN
  /\ a \in CmpVersions
  /\ b \in CmpVersions
  /\ ranges = <<>>
  /\ text = <<>>
  /\ pc = "init"
  /\ ret = <<>>

\* a.is_older_than(&b)
IsOlderThan ==
  /\ pc = "init"
  /\ pc' = "is_older_than"
  /\ ret' = is_older_than(a, b)
  /\ UNCHANGED <<overflow_checks, a, b, ranges, text>>

\* a < b, a == b, a > b
Compare ==
  /\ pc = "init"
  /\ pc' = "compare"
  /\ ret' = [lt |-> Lt(a, b), eq |-> DerivedEq(a, b), gt |-> Gt(a, b)]
  /\ UNCHANGED <<overflow_checks, a, b, ranges, text>>

\* Range::le_range_to_lt(a)
LeRangeToLt ==
  /\ pc = "init"
  /\ pc' = "le_range_to_lt"
  /\ ret' = le_range_to_lt(a)
  /\ UNCHANGED <<overflow_checks, a, b, ranges, text>>

\* Range::gt_range_to_ge(a)
GtRangeToGe ==
  /\ pc = "init"
  /\ pc' = "gt_range_to_ge"
  /\ ret' = gt_range_to_ge(a)
  /\ UNCHANGED <<overflow_checks, a, b, ranges, text>>

NextVersion ==
  \/ IsOlderThan
  \/ Compare
  \/ LeRangeToLt
  \/ GtRangeToGe

SpecVersion == InitVersion /\ [][NextVersion]_vars

---------------------------------------------------------------------------
(* Range algebra: a Vec<(Op, Version)> is drawn, one call is made on it *)

InitRange ==
  /\ overflow_checks \in BOOLEAN
  /\ a = DefaultVersion
  /\ b = DefaultVersion
  /\ ranges \in RangeLists
  /\ text = <<>>
  /\ pc = "init"
  /\ ret = <<>>

\* Range::mixed_vec_to_stand_vec(ranges)
MixedVecToStandVec ==
  /\ pc = "init"
  /\ pc' = "mixed_vec_to_stand_vec"
  /\ ret' = mixed_vec_to_stand_vec(ranges)
  /\ UNCHANGED <<overflow_checks, a, b, ranges, text>>

\* Range::from_ver_vec(ranges)
FromVerVec ==
  /\ pc = "init"
  /\ pc' = "from_ver_vec"
  /\ ret' = from_ver_vec(ranges)
  /\ UNCHANGED <<overflow_checks, a, b, ranges, text>>

NextRange ==
  \/ MixedVecToStandVec
  \/ FromVerVec

SpecRange == InitRange /\ [][NextRange]_vars

---------------------------------------------------------------------------
(* Parsing: a text is drawn, raw or written from range items, and parsed *)

InitParse ==
  /\ overflow_checks \in BOOLEAN
  /\ a = DefaultVersion
  /\ b = DefaultVersion
  /\ \/ /\ text \in RawTexts
        /\ ranges = <<>>
     \/ \E items \in ItemLists,
           around \in {<<>>, <<" ">>}, after \in {<<>>, <<" ">>},
           sep \in Separators :
          /\ text = around \o JoinItems(items, after, sep) \o around
          /\ ranges = PairsOf(items)
  /\ pc = "init"
  /\ ret = <<>>

\* Version::parse(text)
ParseVersion ==
  /\ pc \in {"init", "to_string"}
  /\ pc' = IF pc = "init" THEN "parse" ELSE "parse_to_string"
  /\ ret' = Version_parse(text)
  /\ UNCHANGED <<overflow_checks, a, b, ranges, text>>

\* the_parser::parse_range(text)
ParseRange ==
  /\ pc = "init"
  /\ pc' = "parse_range"
  /\ ret' = parse_range(text)
  /\ UNCHANGED <<overflow_checks, a, b, ranges, text>>

NextParse ==
  \/ ParseVersion
  \/ ParseRange

SpecParse == InitParse /\ [][NextParse]_vars

---------------------------------------------------------------------------
(* Round trip: a Version is made, printed, and the text parsed back *)

\* a is made of a core and of extra_version, pre_release and build that are
\* absent or tokens of letters, digits, '_' and '.'; neither to_string nor
\* the version grammar adds, so one build is drawn
InitRoundTrip ==
  /\ overflow_checks = TRUE
  /\ \E c \in RoundTripCores,
        e \in OptTokens({"a", "1", "_", "."}),
        r \in OptTokens({"a", "1", "_"}),
        bd \in OptTokens({"a", "_", "."}) :
       a = New(c[1], c[2], c[3], e, r, bd)
  /\ b = DefaultVersion
  /\ ranges = <<>>
  /\ text = <<>>
  /\ pc = "new"
  /\ ret = <<>>

\* a.to_string()
VersionToString ==
  /\ pc = "new"
  /\ pc' = "to_string"
  /\ text' = to_string(a)
  /\ UNCHANGED <<overflow_checks, a, b, ranges, ret>>

NextRoundTrip ==
  \/ VersionToString
  \/ ParseVersion

SpecRoundTrip == InitRoundTrip /\ [][NextRoundTrip]_vars

---------------------------------------------------------------------------
(* Properties of the version comparisons *)

\* pre-release precedence: an absent pre_release is newer than a present one
PreOlder(p, q) ==
  \/ p # None /\ q = None
  \/ p # None /\ q # None /\ StrLt(p[1], q[1])

\* strict lexicographic priority over (major, minor, patch, extra_version,
\* pre_release): a component decides only when all before it are equal
PrecedesLex(x, y) ==
  \/ x.major < y.major
  \/ /\ x.major = y.major
     /\ \/ x.minor < y.minor
        \/ /\ x.minor = y.minor
           /\ \/ x.patch < y.patch
              \/ /\ x.patch = y.patch
                 /\ \/ OptLt(x.extra_version, y.extra_version)
                    \/ /\ x.extra_version = y.extra_version
                       /\ PreOlder(x.pre_release, y.pre_release)

\* C2: a.is_older_than(b) is true exactly when a precedes b in strict
\* lexicographic priority over (major, minor, patch, extra_version,
\* pre_release), an absent pre_release being newer than any present one
C2_IsOlderThanIsLexicographic ==
  pc = "is_older_than" => (ret <=> PrecedesLex(a, b))

\* C3: exactly one of a < b, a == b, a > b holds, with the derived ==
C3_Trichotomy ==
  pc = "compare" =>
    \/ ret.lt /\ ~ret.eq /\ ~ret.gt
    \/ ~ret.lt /\ ret.eq /\ ~ret.gt
    \/ ~ret.lt /\ ~ret.eq /\ ret.gt

\* the version with patch + 1 and nothing after the patch
PatchBumped(v) == New(v.major, v.minor, v.patch + 1, None, None, None)

\* C5: b is below the bound made for Le(a) exactly when b <= a, and at or
\* above the bound made for Gt(a) exactly when b > a, in range order
C5_LeGtExpansionKeepsMeaning ==
  /\ pc = "le_range_to_lt" /\ ~ret.panicked =>
       (Lt(b, ret.val[1].version) <=> Le(b, a))
  /\ pc = "gt_range_to_ge" /\ ~ret.panicked =>
       (Ge(b, ret.val[1].version) <=> Gt(b, a))

---------------------------------------------------------------------------
(* Properties of the range algebra *)

RangeEq(x, y) == partial_cmp(x, y) = "Equal"

\* two Option<Version> are both absent, or both present and range-order-equal
OptRangeEq(x, y) ==
  \/ x = None /\ y = None
  \/ x # None /\ y # None /\ RangeEq(x[1], y[1])

Elems(v) == {v[i] : i \in 1..Len(v)}

\* a Vec as a collection: each element with the number of times it occurs
AsBag(v) == [x \in Elems(v) |-> Cardinality({i \in 1..Len(v) : v[i] = x})]

\* C1: min is the largest Ge version of the expanded list and max the
\* smallest Lt version; min is absent iff there is no Ge pair, max is absent
\* iff there is no Lt pair
C1_MinIsMaxOfGe ==
  pc = "from_ver_vec" /\ ~ret.panicked =>
    LET e == mixed_vec_to_stand_vec(ranges).val
        ges == VersionsOf(e, "Ge")
        lts == VersionsOf(e, "Lt")
    IN /\ ret.val.min = None <=> ges = <<>>
       /\ ret.val.max = None <=> lts = <<>>
       /\ ges # <<>> =>
            /\ \E i \in 1..Len(ges) : RangeEq(ges[i], ret.val.min[1])
            /\ \A i \in 1..Len(ges) : Le(ges[i], ret.val.min[1])
       /\ lts # <<>> =>
            /\ \E i \in 1..Len(lts) : RangeEq(lts[i], ret.val.max[1])
            /\ \A i \in 1..Len(lts) : Ge(lts[i], ret.val.max[1])

\* the expansion of one pair as the rules state it
StatedExpansion(p) ==
  LET v == p.version IN
  CASE p.op = "Tilde" ->
         << Pair("Ge", v),
            Pair("Lt", New(v.major, v.minor + 1, 0, None, None, None)) >>
    [] p.op = "Caret" ->
         << Pair("Ge", v),
            Pair("Lt", New(v.major + 1, 0, 0, None, None, None)) >>
    [] p.op = "Le" -> << Pair("Lt", PatchBumped(v)) >>
    [] p.op = "Gt" -> << Pair("Ge", PatchBumped(v)) >>
    [] OTHER -> <<p>>

RECURSIVE StatedExpansionOfAll(_)
StatedExpansionOfAll(rs) ==
  IF rs = <<>> THEN <<>>
  ELSE StatedExpansion(Head(rs)) \o StatedExpansionOfAll(Tail(rs))

IsU32(n) == n \in 0..U32_MAX

\* C4: mixed_vec_to_stand_vec rewrites each pair in input order by the
\* stated rules, into pairs of Ge, Lt, Ne and Eq whose versions are Versions
C4_ExpansionRules ==
  pc = "mixed_vec_to_stand_vec" =>
    /\ ~ret.panicked
    /\ ret.val = StatedExpansionOfAll(ranges)
    /\ \A i \in 1..Len(ret.val) :
         /\ ret.val[i].op \in {"Ge", "Lt", "Ne", "Eq"}
         /\ IsU32(ret.val[i].version.major)
         /\ IsU32(ret.val[i].version.minor)
         /\ IsU32(ret.val[i].version.patch)

\* the sequences with the elements of rs in every order
PermutationsOf(rs) ==
  {[i \in 1..Len(rs) |-> rs[f[i]]] : f \in Permutations(1..Len(rs))}

\* two outcomes of from_ver_vec agree up to range order
SameRange(x, y) ==
  /\ x.panicked = y.panicked
  /\ ~x.panicked =>
       /\ OptRangeEq(x.val.min, y.val.min)
       /\ OptRangeEq(x.val.max, y.val.max)
       /\ AsBag(x.val.except) = AsBag(y.val.except)
       /\ AsBag(x.val.include) = AsBag(y.val.include)

\* C6: from_ver_vec of any permutation of the list has range-order-equal
\* min and max and the same except and include collections
C6_OrderIndependent ==
  pc = "from_ver_vec" =>
    \A q \in PermutationsOf(ranges) : SameRange(from_ver_vec(q), ret)

\* C6 witness: two Ge bounds given in descending order were reduced
C6_Witness ==
  /\ pc = "from_ver_vec"
  /\ ~ret.panicked
  /\ Len(ranges) = 2
  /\ ranges[1].op = "Ge"
  /\ ranges[2].op = "Ge"
  /\ Gt(ranges[1].version, ranges[2].version)
  /\ ret.val.min = Some(ranges[2].version)

\* C7: from_ver_vec returns a Range for every list, never aborting, and
\* [Ge hi, Lt lo] with lo below hi yields min = hi and max = lo
C7_NeverAborts ==
  pc = "from_ver_vec" =>
    /\ ~ret.panicked
    /\ \A hi, lo \in RangeVersions :
         ranges = <<Pair("Ge", hi), Pair("Lt", lo)>> /\ Lt(lo, hi) =>
           ret.val.min = Some(hi) /\ ret.val.max = Some(lo)

---------------------------------------------------------------------------
(* Properties of the parsers *)

\* C8: a text of one or more items separated by runs of spaces, commas or
\* semicolons is accepted, and from_ver_vec is handed one pair per item in
\* input order
C8_RangeGrammarAcceptsItems ==
  pc = "parse_range" /\ ranges # <<>> =>
    /\ ret.ok
    /\ ret.handed = ranges

AllDigits(s) == s # <<>> /\ \A i \in 1..Len(s) : IsDigit(s[i])

\* a '.' after major or minor that no numeric component follows
DanglingDot(s) ==
  \E i \in 1..Len(s) :
    /\ s[i] = "."
    /\ \/ AllDigits(SubSeq(s, 1, i - 1))
       \/ \E j \in 1..(i - 1) :
            /\ s[j] = "."
            /\ AllDigits(SubSeq(s, 1, j - 1))
            /\ AllDigits(SubSeq(s, j + 1, i - 1))
    /\ i = Len(s) \/ ~IsDigit(s[i + 1])

\* C9: Version::parse fails on "abc", on "1..2" and on every text with a
\* dangling '.', and parse_range fails on "=>1.0"
C9_MalformedInputFails ==
  /\ pc = "parse" /\ (text = <<"a", "b", "c">> \/ DanglingDot(text)) =>
       ~ret.ok
  /\ pc = "parse_range" /\ text = <<"=", ">", "1", ".", "0">> => ~ret.ok

\* C10: parsing the text of a Version succeeds and returns a version that
\* is range-order-equal to it
C10_RoundTrip ==
  pc = "parse_to_string" => ret.ok /\ RangeEq(ret.val, a)

\* C10 witness: a version with all three tokens and a two-digit component
\* was printed and parsed back
C10_Witness ==
  /\ pc = "parse_to_string"
  /\ a.major = U32_MAX
  /\ a.extra_version # None
  /\ a.pre_release # None
  /\ a.build # None
  /\ ret.ok
  /\ ret.val.extra_version = a.extra_version

===========================================================================
